---- MODULE Spec2Model ----
(***************************************************************************)
(* Model of the web3 contract loader: dependency extraction from bytecode  *)
(* placeholders and constructor parameters, dependency graph construction  *)
(* with eager cycle rejection, deployment ordering, bytecode linking and   *)
(* the deployment run of module.exports.                                   *)
(*                                                                         *)
(* JavaScript strings are sequences of one-character strings.  The value   *)
(* undefined is the one-element sequence Undefined, which no string of     *)
(* characters equals.                                                      *)
(***************************************************************************)
EXTENDS Integers, Sequences, FiniteSets, TLC

VARIABLES
  pc,          \* position of the run: see the actions below
  config,      \* merged loader configuration
  contractMap, \* name -> artifact object {name, abi, bytecode, address}
  contracts,   \* compiledContracts: array of names of the artifact objects
  input,       \* the artifacts as toArray listed them, before any sort or link
  g,           \* graph of buildDependencyGraph, as its return or its throw left it
  plan,        \* dependsOrdering of sortByDependencies
  k,           \* index of the next element the deploy map callback visits
  begun,       \* names whose link/deploy step (past the reuse test) has begun
  linkLog,     \* name -> sequence of <<dependency, address>> linkDependency calls
  sends,       \* sequence of deploy requests sent to the ledger client
  promise,     \* name -> state of the promise deploy returned for it
  error,       \* the exception thrown / rejection, NoError when none
  callbacks,   \* invocations of loaderCallback, in order
  lk           \* state of the stand-alone linking and extraction checks

vars == <<pc, config, contractMap, contracts, input, g, plan, k,
          begun, linkLog, sends, promise, error, callbacks, lk>>

runVars == <<pc, config, contractMap, contracts, input, g, plan, k,
             begun, linkLog, sends, promise, error, callbacks>>

----------------------------------------------------------------------------
(* Bounds of the model *)

\* largest number of artifacts in the compiled contract map of a run
MaxContracts == 2
\* largest number of placeholders in one bytecode of the linking checks
MaxPlaceholders == 2
\* largest number of padding underscores that end a placeholder
MaxPad == 2

----------------------------------------------------------------------------
(* Strings *)

Undefined == <<"undefined">>

US == "_"

\* names of contracts and libraries; "a" is a prefix of "ab"
Names == { <<"a">>, <<"b">>, <<"a", "b">> }

\* s.substring(from) with a 0-based index
Substring(s, from) == SubSeq(s, from + 1, Len(s))

\* s.startsWith(p)
StartsWith(s, p) == Len(s) >= Len(p) /\ SubSeq(s, 1, Len(p)) = p

\* p occurs in s at the 1-based position i
OccursAt(s, p, i) == i + Len(p) - 1 <= Len(s) /\ SubSeq(s, i, i + Len(p) - 1) = p

\* arr.indexOf(x): 0-based index of the first occurrence, -1 when there is none
IndexOf(arr, x) ==
  IF \E i \in 1..Len(arr) : arr[i] = x
  THEN (CHOOSE i \in 1..Len(arr) : arr[i] = x /\ \A j \in 1..(i - 1) : arr[j] # x) - 1
  ELSE -1

\* first position >= i of s that holds no underscore any more (Len(s) + 1 at the end)
RECURSIVE SkipUnderscores(_, _)
SkipUnderscores(s, i) ==
  IF i <= Len(s) /\ s[i] = US THEN SkipUnderscores(s, i + 1) ELSE i

\* first position >= i of s that holds an underscore (Len(s) + 1 at the end)
RECURSIVE SkipName(_, _)
SkipName(s, i) ==
  IF i <= Len(s) /\ s[i] # US THEN SkipName(s, i + 1) ELSE i

\* str.replace(pat, "") with a string pattern: only the first occurrence goes
ReplaceFirst(str, pat) ==
  IF \E i \in 1..Len(str) : OccursAt(str, pat, i)
  THEN LET i == CHOOSE p \in 1..Len(str) :
                  OccursAt(str, pat, p) /\ \A q \in 1..(p - 1) : ~OccursAt(str, pat, q)
       IN SubSeq(str, 1, i - 1) \o SubSeq(str, i + Len(pat), Len(str))
  ELSE str

----------------------------------------------------------------------------
(* Dependency extraction *)

\* the loop of getDependenciesFromBytecode: regex.exec from position i on,
\* regex = /__([^_]*)_*/g, dependencies collected so far in deps
RECURSIVE ScanBytecode(_, _, _)
ScanBytecode(bytecode, i, deps) ==
  IF i + 1 > Len(bytecode) THEN deps
  ELSE IF bytecode[i] = US /\ bytecode[i + 1] = US
       THEN LET nameEnd == SkipName(bytecode, i + 2)
                libName == SubSeq(bytecode, i + 2, nameEnd - 1)
                last    == SkipUnderscores(bytecode, nameEnd)
            IN ScanBytecode(bytecode, last,
                            IF IndexOf(deps, libName) = -1
                            THEN Append(deps, libName) ELSE deps)
       ELSE ScanBytecode(bytecode, i + 1, deps)

getDependenciesFromBytecode(bytecode) == ScanBytecode(bytecode, 1, <<>>)

PREFIX == <<"i", "n", "j", "e", "c", "t", "_">>

\* a filter that keeps every element, repeated ones included
KeepAll(arr) == arr

\* arr.filter(onlyUnique)
OnlyUnique(arr) ==
  LET keep == { i \in 1..Len(arr) : IndexOf(arr, arr[i]) = i - 1 }
      F[i \in 0..Len(arr)] ==
        IF i = 0 THEN <<>>
        ELSE IF i \in keep THEN Append(F[i - 1], arr[i]) ELSE F[i - 1]
  IN F[Len(arr)]

\* arr.map(f) for the two maps of getDependenciesFromConstructor
StripPrefix(inputs) == [i \in 1..Len(inputs) |-> Substring(inputs[i].name, Len(PREFIX))]

IsConstructor(item) == item.type = "constructor"

IsInjected(in) == StartsWith(in.name, PREFIX) /\ in.type = "address"

getDependenciesFromConstructor(abi) ==
  LET ctors == SelectSeq(abi, IsConstructor)
      firstConstructorInputs == IF Len(ctors) = 0 THEN <<>> ELSE ctors[1].inputs
  IN OnlyUnique(StripPrefix(SelectSeq(firstConstructorInputs, IsInjected)))

getDependencies(contract) ==
  getDependenciesFromBytecode(contract.bytecode)
    \o getDependenciesFromConstructor(contract.abi)

----------------------------------------------------------------------------
(* Linking *)

\* binary.replace(re, binAddress), re = new RegExp("__" + dependencyName + "_*", "g"),
\* from position i on
RECURSIVE ReplaceAll(_, _, _, _)
ReplaceAll(binary, pat, binAddress, i) ==
  IF i > Len(binary) THEN <<>>
  ELSE IF OccursAt(binary, pat, i)
       THEN binAddress
              \o ReplaceAll(binary, pat, binAddress,
                            SkipUnderscores(binary, i + Len(pat)))
       ELSE <<binary[i]>> \o ReplaceAll(binary, pat, binAddress, i + 1)

linkDependency(binary, dependencyName, dependencyAddress) ==
  LET binAddress == ReplaceFirst(dependencyAddress, <<"0", "x">>)
  IN ReplaceAll(binary, <<US, US>> \o dependencyName, binAddress, 1)

----------------------------------------------------------------------------
(* The dependency graph (graphlib Graph and its algorithms, as the loader  *)
(* uses them): nodes and edges are kept in insertion order, the order in   *)
(* which g.nodes() and g.successors(v) list them.                          *)

EmptyGraph == [nodes |-> <<>>, edges |-> <<>>]

SeqToSet(s) == { s[i] : i \in 1..Len(s) }

hasNode(gr, v) == v \in SeqToSet(gr.nodes)

setNode(gr, v) == IF hasNode(gr, v) THEN gr ELSE [gr EXCEPT !.nodes = Append(@, v)]

setEdge(gr, v, w) ==
  IF <<v, w>> \in SeqToSet(gr.edges) THEN gr ELSE [gr EXCEPT !.edges = Append(@, <<v, w>>)]

\* g.neighbors(v): the successors and the predecessors of v
neighbors(gr, v) ==
  LET F[i \in 0..Len(gr.edges)] ==
        IF i = 0 THEN <<>>
        ELSE IF gr.edges[i][1] = v THEN Append(F[i - 1], gr.edges[i][2])
        ELSE IF gr.edges[i][2] = v THEN Append(F[i - 1], gr.edges[i][1]) ELSE F[i - 1]
  IN F[Len(gr.edges)]

\* g.successors(v)
successors(gr, v) ==
  LET F[i \in 0..Len(gr.edges)] ==
        IF i = 0 THEN <<>>
        ELSE IF gr.edges[i][1] = v THEN Append(F[i - 1], gr.edges[i][2]) ELSE F[i - 1]
  IN F[Len(gr.edges)]

\* nodes reachable from the nodes of frontier by one or more edges
RECURSIVE ReachFrom(_, _)
ReachFrom(gr, seen) ==
  LET next == seen \cup { e[2] : e \in { d \in SeqToSet(gr.edges) : d[1] \in seen } }
  IN IF next = seen THEN seen ELSE ReachFrom(gr, next)

Descendants(gr, v) ==
  ReachFrom(gr, { e[2] : e \in { d \in SeqToSet(gr.edges) : d[1] = v } })

\* a cycle check that follows only edges between different nodes
isAcyclicButSelfLoops(gr) ==
  LET proper == [gr EXCEPT !.edges = SelectSeq(@, LAMBDA e : e[1] # e[2])]
  IN \A v \in SeqToSet(gr.nodes) : v \notin Descendants(proper, v)

\* GraphAlgorithms.isAcyclic(g): no node lies on a cycle (a self loop is a cycle)
isAcyclic(gr) == \A v \in SeqToSet(gr.nodes) : v \notin Descendants(gr, v)

\* doDfs of GraphAlgorithms.postorder, navigation = successors; st = [visited, acc].
\* DfsEach is the _.each over the list vs from index i on.
RECURSIVE DfsEach(_, _, _, _)
DfsEach(gr, vs, i, st) ==
  IF i > Len(vs) THEN st
  ELSE LET v == vs[i]
       IN IF v \in st.visited
          THEN DfsEach(gr, vs, i + 1, st)
          ELSE LET sub  == DfsEach(gr, successors(gr, v), 1,
                                   [st EXCEPT !.visited = @ \cup {v}])
                   done == [sub EXCEPT !.acc = Append(@, v)]
               IN DfsEach(gr, vs, i + 1, done)

postorder(gr, vs) == DfsEach(gr, vs, 1, [visited |-> {}, acc |-> <<>>]).acc

\* arr.sort(cmp) with cmp(a, b) = ordering.indexOf(a) - ordering.indexOf(b):
\* insertion of arr[n] into the sorted first n - 1 elements, equal keys kept in order
RECURSIVE SortBy(_, _, _)
SortBy(arr, ordering, n) ==
  IF n = 0 THEN <<>>
  ELSE LET head == SortBy(arr, ordering, n - 1)
           x    == arr[n]
           pos  == Cardinality({ i \in 1..Len(head) :
                     IndexOf(ordering, head[i]) - IndexOf(ordering, x) <= 0 })
       IN SubSeq(head, 1, pos) \o <<x>> \o SubSeq(head, pos + 1, Len(head))

\* the loops of buildDependencyGraph from contract i and its dependency j on
\* (j = 0: the node of contract i is still to be set).  The result holds the graph
\* and, when the insertion of an edge left it cyclic, the edge of the throw.
RECURSIVE BuildLoop(_, _, _, _)
BuildLoop(arr, i, j, gr) ==
  IF i > Len(arr)
  THEN [graph |-> gr, cycle |-> FALSE, contractName |-> <<>>, depName |-> <<>>]
  ELSE LET contractName == arr[i].name
           deps == getDependencies(arr[i])
       IN IF j = 0 THEN BuildLoop(arr, i, 1, setNode(gr, contractName))
          ELSE IF j > Len(deps) THEN BuildLoop(arr, i + 1, 0, gr)
          ELSE LET depName == deps[j]
                   withEdge == setEdge(setNode(gr, depName), contractName, depName)
               IN IF ~isAcyclic(withEdge)
                  THEN [graph |-> withEdge, cycle |-> TRUE,
                        contractName |-> contractName, depName |-> depName]
                  ELSE BuildLoop(arr, i, j + 1, withEdge)

buildDependencyGraph(arr) == BuildLoop(arr, 1, 0, EmptyGraph)

----------------------------------------------------------------------------
(* Linking and constructor arguments of one contract *)

\* map[name] is an artifact object, not undefined
HasContract(map, name) == name \in DOMAIN map

\* the for loop of linkBytecode from index i on.  Reading .address of a missing
\* artifact and calling .replace on an undefined address both throw a TypeError;
\* contract.bytecode keeps what the earlier iterations assigned.
RECURSIVE LinkLoop(_, _, _, _, _)
LinkLoop(bytecode, deps, i, allContracts, log) ==
  IF i > Len(deps) THEN [ok |-> TRUE, bytecode |-> bytecode, log |-> log, dep |-> <<>>]
  ELSE LET depName == deps[i]
       IN IF ~HasContract(allContracts, depName)
             \/ allContracts[depName].address = Undefined
          THEN [ok |-> FALSE, bytecode |-> bytecode, log |-> log, dep |-> depName]
          ELSE LinkLoop(linkDependency(bytecode, depName, allContracts[depName].address),
                        deps, i + 1, allContracts,
                        Append(log, <<depName, allContracts[depName].address>>))

linkBytecode(contract, allContracts) ==
  LinkLoop(contract.bytecode, getDependenciesFromBytecode(contract.bytecode), 1,
           allContracts, <<>>)

\* a JavaScript string (or undefined) is truthy when it is a non-empty string
Truthy(address) == address # Undefined /\ address # <<>>

\* a resolveConstructorParams loop that puts each address ahead of the
\* parameters collected so far
RECURSIVE ParamsLoopPrepending(_, _, _, _)
ParamsLoopPrepending(params, injectableDependencies, i, map) ==
  IF i > Len(injectableDependencies)
  THEN [kind |-> "ok", params |-> params, dep |-> <<>>]
  ELSE LET dep == injectableDependencies[i]
       IN IF ~HasContract(map, dep)
          THEN [kind |-> "TypeError", params |-> params, dep |-> dep]
          ELSE IF Truthy(map[dep].address)
               THEN ParamsLoopPrepending(<<map[dep].address>> \o params,
                                         injectableDependencies, i + 1, map)
               ELSE [kind |-> "NotDeployed", params |-> params, dep |-> dep]

\* the forEach of resolveConstructorParams from index i on: kind is "ok",
\* "TypeError" (contractMap[dep] is undefined) or "NotDeployed" (the thrown Error)
RECURSIVE ParamsLoop(_, _, _, _)
ParamsLoop(params, injectableDependencies, i, map) ==
  IF i > Len(injectableDependencies)
  THEN [kind |-> "ok", params |-> params, dep |-> <<>>]
  ELSE LET dep == injectableDependencies[i]
       IN IF ~HasContract(map, dep)
          THEN [kind |-> "TypeError", params |-> params, dep |-> dep]
          ELSE IF Truthy(map[dep].address)
               THEN ParamsLoop(Append(params, map[dep].address),
                               injectableDependencies, i + 1, map)
               ELSE [kind |-> "NotDeployed", params |-> params, dep |-> dep]

resolveConstructorParams(cfg, contract, map) ==
  ParamsLoop(IF contract.name \in DOMAIN cfg.constructorParams
             THEN cfg.constructorParams[contract.name] ELSE <<>>,
             getDependenciesFromConstructor(contract.abi), 1, map)

----------------------------------------------------------------------------
(* Inputs of a run *)

Hex == <<"6">>

Pad(n) == [i \in 1..n |-> US]

\* "__" name "_..._": a library placeholder with n padding underscores
Placeholder(name, n) == <<US, US>> \o name \o Pad(n)

\* sequences of at most n distinct names
DistinctSeqs(n) ==
  { q \in UNION { [1..m -> Names] : m \in 0..n } :
      \A i, j \in 1..Len(q) : i # j => q[i] # q[j] }

\* the libraries an artifact of a run links, and the dependencies it has
\* injected: none or one
DepChoices == { <<>> } \cup { <<n>> : n \in Names }

\* bytecode with one placeholder, padded to MaxPad, for each name of libs
RECURSIVE WithPlaceholders(_, _)
WithPlaceholders(libs, i) ==
  IF i > Len(libs) THEN Hex
  ELSE Hex \o Placeholder(libs[i], MaxPad) \o WithPlaceholders(libs, i + 1)

Inject(name) == [name |-> PREFIX \o name, type |-> "address"]

Constructor(inputs) == [type |-> "constructor", inputs |-> inputs]

\* ABI whose only constructor takes one injected address for each name of libs
AbiInjecting(libs) ==
  IF Len(libs) = 0 THEN <<>>
  ELSE << Constructor([i \in 1..Len(libs) |-> Inject(libs[i])]) >>

Artifact(name, libs, injected) ==
  [name |-> name, abi |-> AbiInjecting(injected),
   bytecode |-> WithPlaceholders(libs, 1), address |-> Undefined]

\* the address the configuration supplies for an already deployed contract
ConfiguredAddress(name) ==
  <<"0", "x", "c">> \o (IF name = <<"a">> THEN <<"1">>
                        ELSE IF name = <<"b">> THEN <<"2">> ELSE <<"3">>)

\* the address the ledger client answers the n-th completed deployment with
LedgerAddress(n) == <<"0", "x", "d">> \o [i \in 1..n |-> "1"]

\* an exception or rejection: its kind, the function that raised it, the
\* contract it was processing and the dependency it concerns
NoError == [kind |-> "none", at |-> "none", a |-> <<>>, b |-> <<>>]

Error(kind, at, a, b) == [kind |-> kind, at |-> at, a |-> a, b |-> b]

NoPromise == [state |-> "none", kind |-> "none", address |-> Undefined]

LkIdle == [phase |-> "idle"]

\* the loader was called with the compiled source of one to MaxContracts
\* artifacts (in the order of the keys of the contract map); init has started
\* mergeConfig and nothing is evaluated yet
Init ==
  /\ pc = "config"
  /\ \E order \in DistinctSeqs(MaxContracts) :
       /\ Len(order) >= 1
       /\ \E deps \in [SeqToSet(order) -> DepChoices \X DepChoices] :
            input = [i \in 1..Len(order) |->
                       Artifact(order[i], deps[order[i]][1], deps[order[i]][2])]
  /\ config = [deployedContracts |-> <<>>, constructorParams |-> <<>>]
  /\ contractMap = <<>>
  /\ contracts = <<>>
  /\ g = EmptyGraph
  /\ plan = <<>>
  /\ k = 1
  /\ begun = {}
  /\ linkLog = [n \in Names |-> <<>>]
  /\ sends = <<>>
  /\ promise = [n \in Names |-> NoPromise]
  /\ error = NoError
  /\ callbacks = <<>>
  /\ lk = LkIdle

----------------------------------------------------------------------------
(* The run of module.exports *)

Contract(i) == contractMap[contracts[i]]

InputNames == [i \in 1..Len(input) |-> input[i].name]

\* the artifact of name n as the build produced it
Original(n) == input[IndexOf(InputNames, n) + 1]

\* configPromise resolves with the merged configuration (the addresses of the
\* contracts to reuse are its input): the then callback evaluates the compiled
\* source to contractMap, toArray lists its artifacts and sortByDependencies
\* builds the graph, then plans and sorts, or throws out of the callback.
ConfigResolved ==
  /\ pc = "config"
  /\ contractMap' = [n \in SeqToSet(InputNames) |-> Original(n)]
  /\ \E built \in {buildDependencyGraph(input)} :
       /\ g' = built.graph
       /\ IF built.cycle
          THEN /\ pc' = "unhandled"
               /\ error' = Error("Cycle", "buildDependencyGraph",
                                 built.contractName, built.depName)
               /\ plan' = <<>>
               /\ contracts' = InputNames
          ELSE /\ plan' = postorder(built.graph, built.graph.nodes)
               /\ contracts' = SortBy(InputNames, plan', Len(input))
               /\ pc' = "map"
               /\ UNCHANGED error
  /\ \E reuse \in SUBSET SeqToSet(InputNames) :
       config' = [deployedContracts |-> [n \in reuse |-> ConfiguredAddress(n)],
                  constructorParams |-> [n \in {input[1].name} |-> << <<"7">> >>]]
  /\ UNCHANGED <<input, k, begun, linkLog, sends, promise, callbacks, lk>>

\* mergeConfig's ledger queries fail: configPromise rejects, and the then() of
\* module.exports has no rejection handler
ConfigRejected ==
  /\ pc = "config"
  /\ pc' = "unhandled"
  /\ error' = Error("ConfigFailed", "mergeConfig", <<>>, <<>>)
  /\ UNCHANGED <<config, contractMap, contracts, input, g, plan, k, begun,
                 linkLog, sends, promise, callbacks, lk>>

\* where the map over compiledContracts stands after element k: Promise.all
\* awaits the promises once the last callback has returned
AfterElement == IF k = Len(contracts) THEN "await" ELSE "map"

Reused(name) == name \in DOMAIN config.deployedContracts

\* a reuse that resolves with the artifact but leaves its address unset
DeployReuseWithoutAddress ==
  /\ pc = "map" /\ k <= Len(contracts)
  /\ Reused(Contract(k).name)
  /\ promise' = [promise EXCEPT ![contracts[k]] =
                   [state |-> "resolved", kind |-> "artifact", address |-> Undefined]]
  /\ k' = k + 1
  /\ pc' = AfterElement
  /\ UNCHANGED <<config, contractMap, contracts, input, g, plan, begun,
                 linkLog, sends, error, callbacks, lk>>

\* deploy of element k, a contract the configuration supplies an address for
DeployReuse ==
  /\ pc = "map" /\ k <= Len(contracts)
  /\ Reused(Contract(k).name)
  /\ contractMap' = [contractMap EXCEPT
                       ![contracts[k]].address = config.deployedContracts[Contract(k).name]]
  /\ promise' = [promise EXCEPT ![contracts[k]] =
                   [state |-> "resolved", kind |-> "artifact",
                    address |-> config.deployedContracts[Contract(k).name]]]
  /\ k' = k + 1
  /\ pc' = AfterElement
  /\ UNCHANGED <<config, contracts, input, g, plan, begun,
                 linkLog, sends, error, callbacks, lk>>

\* deploy of element k: linkBytecode throws (a TypeError) out of the map callback
DeployLinkThrows ==
  /\ pc = "map" /\ k <= Len(contracts)
  /\ ~Reused(Contract(k).name)
  /\ LET linked == linkBytecode(Contract(k), contractMap)
     IN /\ ~linked.ok
        /\ contractMap' = [contractMap EXCEPT ![contracts[k]].bytecode = linked.bytecode]
        /\ linkLog' = [linkLog EXCEPT ![contracts[k]] = linked.log]
        /\ error' = Error("TypeError", "linkBytecode", contracts[k], linked.dep)
  /\ begun' = begun \cup {contracts[k]}
  /\ pc' = "unhandled"
  /\ UNCHANGED <<config, contracts, input, g, plan, k,
                 sends, promise, callbacks, lk>>

\* deploy of element k: linked, then resolveConstructorParams throws out of the
\* map callback
DeployParamsThrow ==
  /\ pc = "map" /\ k <= Len(contracts)
  /\ ~Reused(Contract(k).name)
  /\ LET linked == linkBytecode(Contract(k), contractMap)
         params == resolveConstructorParams(config, Contract(k), contractMap)
     IN /\ linked.ok
        /\ params.kind # "ok"
        /\ contractMap' = [contractMap EXCEPT ![contracts[k]].bytecode = linked.bytecode]
        /\ linkLog' = [linkLog EXCEPT ![contracts[k]] = linked.log]
        /\ error' = Error(params.kind, "resolveConstructorParams", contracts[k], params.dep)
  /\ begun' = begun \cup {contracts[k]}
  /\ pc' = "unhandled"
  /\ UNCHANGED <<config, contracts, input, g, plan, k,
                 sends, promise, callbacks, lk>>

\* deploy of element k: linked, arguments resolved, and the deployment sent
DeploySend ==
  /\ pc = "map" /\ k <= Len(contracts)
  /\ ~Reused(Contract(k).name)
  /\ LET linked == linkBytecode(Contract(k), contractMap)
         params == resolveConstructorParams(config, Contract(k), contractMap)
     IN /\ linked.ok
        /\ params.kind = "ok"
        /\ contractMap' = [contractMap EXCEPT ![contracts[k]].bytecode = linked.bytecode]
        /\ linkLog' = [linkLog EXCEPT ![contracts[k]] = linked.log]
        /\ sends' = Append(sends, [name |-> contracts[k], data |-> linked.bytecode,
                                   arguments |-> params.params])
  /\ begun' = begun \cup {contracts[k]}
  /\ promise' = [promise EXCEPT ![contracts[k]] =
                   [state |-> "pending", kind |-> "instance", address |-> Undefined]]
  /\ k' = k + 1
  /\ pc' = AfterElement
  /\ UNCHANGED <<config, contracts, input, g, plan, error, callbacks, lk>>

Pending == { n \in Names : promise[n].state = "pending" }

\* no handler of the run is executing: the event loop can settle a promise
Idle == pc \in {"await", "unhandled", "reported"}

Completed == Cardinality({ n \in Names : promise[n].kind = "instance"
                                           /\ promise[n].state = "resolved" })

\* the ledger client answers a deployment with the new contract instance
LedgerResolves(n) ==
  /\ Idle /\ n \in Pending
  /\ promise' = [promise EXCEPT ![n] =
                   [state |-> "resolved", kind |-> "instance",
                    address |-> LedgerAddress(Completed + 1)]]
  /\ UNCHANGED <<pc, config, contractMap, contracts, input, g, plan, k, begun,
                 linkLog, sends, error, callbacks, lk>>

\* the ledger client fails a deployment
LedgerRejects(n) ==
  /\ Idle /\ n \in Pending
  /\ promise' = [promise EXCEPT ![n] =
                   [state |-> "rejected", kind |-> "instance", address |-> Undefined]]
  /\ UNCHANGED <<pc, config, contractMap, contracts, input, g, plan, k, begun,
                 linkLog, sends, error, callbacks, lk>>

\* what the then() after Promise.all writes for each deployedContract
OutputEntry(n) == [name |-> IF promise[n].kind = "artifact" THEN n ELSE Undefined,
                   abi |-> IF promise[n].kind = "artifact" THEN contractMap[n].abi
                           ELSE Undefined,
                   address |-> promise[n].address]

\* Promise.all fulfils: the output is generated and handed to loaderCallback
ReportOutput ==
  /\ pc = "await"
  /\ \A i \in 1..Len(contracts) : promise[contracts[i]].state = "resolved"
  /\ callbacks' = Append(callbacks,
                         [error |-> NoError,
                          output |-> [i \in 1..Len(contracts) |-> OutputEntry(contracts[i])]])
  /\ pc' = "reported"
  /\ UNCHANGED <<config, contractMap, contracts, input, g, plan, k, begun,
                 linkLog, sends, promise, error, lk>>

\* Promise.all rejects with a failed deployment: the catch hands the error over
ReportError ==
  /\ pc = "await"
  /\ \E i \in 1..Len(contracts) :
       /\ promise[contracts[i]].state = "rejected"
       /\ error' = Error("DeployFailed", "deploy", contracts[i], <<>>)
       /\ callbacks' = Append(callbacks, [error |-> error', output |-> <<>>])
  /\ pc' = "reported"
  /\ UNCHANGED <<config, contractMap, contracts, input, g, plan, k, begun,
                 linkLog, sends, promise, lk>>

Next ==
  \/ ConfigResolved
  \/ ConfigRejected
  \/ DeployReuse
  \/ DeployLinkThrows
  \/ DeployParamsThrow
  \/ DeploySend
  \/ \E n \in Names : LedgerResolves(n)
  \/ \E n \in Names : LedgerRejects(n)
  \/ ReportOutput
  \/ ReportError

Spec == Init /\ [][Next]_vars

----------------------------------------------------------------------------
(* Dependency order (C1, C2) *)

\* the dependency edges of the artifact set, in the order of the artifacts and
\* of the dependencies each one lists: <<dependent, dependency>>
RECURSIVE EdgeList(_)
EdgeList(i) ==
  IF i = 0 THEN <<>>
  ELSE LET deps == getDependencies(input[i])
       IN EdgeList(i - 1) \o [j \in 1..Len(deps) |-> <<input[i].name, deps[j]>>]

AllEdges == EdgeList(Len(input))

\* the pairs <<v, w>> with a path of one or more edges of the set E from v to w
RECURSIVE Paths(_)
Paths(E) ==
  LET next == E \cup { <<x[1][1], x[2][2]>> : x \in { y \in E \X E : y[1][2] = y[2][1] } }
  IN IF next = E THEN E ELSE Paths(next)

\* the first n edges of the list edges hold a cycle
CyclicUpTo(edges, n) ==
  \E p \in Paths({ edges[i] : i \in 1..n }) : p[1] = p[2]

\* index of the first edge of the list, from the n-th on, whose insertion closes
\* a cycle, 0 when there is none
RECURSIVE FirstCyclicFrom(_, _)
FirstCyclicFrom(edges, n) ==
  IF n > Len(edges) THEN 0
  ELSE IF CyclicUpTo(edges, n) THEN n ELSE FirstCyclicFrom(edges, n + 1)

FirstCyclicOf(edges) == FirstCyclicFrom(edges, 1)

FirstCyclic == FirstCyclicOf(AllEdges)

Planned == pc \in {"map", "await", "reported"} \/ plan # <<>>

\* C1: for an acyclic artifact set the plan of sortByDependencies holds every
\* graph node exactly once, places every dependency before each of its
\* dependents, and the sorted artifact array is a permutation of the input
\* array ordered as the plan orders it.
C1_PlanOrdersDependenciesFirst ==
  Planned =>
    LET edges == AllEdges
        nodes == { edges[i][1] : i \in 1..Len(edges) }
                   \cup { edges[i][2] : i \in 1..Len(edges) }
                   \cup SeqToSet(InputNames)
    IN /\ FirstCyclicOf(edges) = 0
       /\ SeqToSet(plan) = nodes
       /\ Len(plan) = Cardinality(nodes)
       /\ \A i \in 1..Len(edges) :
            IndexOf(plan, edges[i][2]) < IndexOf(plan, edges[i][1])
       /\ Len(contracts) = Len(input)
       /\ SeqToSet(contracts) = SeqToSet(InputNames)
       /\ \A i, j \in 1..Len(contracts) :
            i < j => IndexOf(plan, contracts[i]) < IndexOf(plan, contracts[j])

\* a plan was computed for a set in which a dependent was listed before its
\* dependency, so that the sort had to reorder the array
C1_Witness ==
  /\ Planned
  /\ contracts # InputNames
  /\ \E i \in 1..Len(AllEdges) : AllEdges[i][2] \in SeqToSet(InputNames)

\* C2: for an artifact set whose dependencies hold a cycle (a self dependency
\* included) graph construction throws a cycle error naming the edge whose
\* insertion first closed a cycle; no later edge or artifact is processed, no
\* plan is made and nothing is ever sent to the deploy capability (the graph
\* is built in the runs whose configuration queries succeeded).
C2_CycleRejectedAtFirstEdge ==
  LET edges == AllEdges
      first == FirstCyclicOf(edges)
  IN /\ first > 0 =>
          /\ ~Planned
          /\ sends = <<>> /\ begun = {}
          /\ (pc # "config" /\ error.kind # "ConfigFailed") =>
               /\ pc = "unhandled"
               /\ error = Error("Cycle", "buildDependencyGraph",
                                edges[first][1], edges[first][2])
               /\ SeqToSet(g.edges) = { edges[i] : i \in 1..first }
               /\ SeqToSet(g.nodes) =
                    { edges[i][1] : i \in 1..first } \cup { edges[i][2] : i \in 1..first }
                      \cup { input[i].name : i \in 1..IndexOf(InputNames, edges[first][1]) + 1 }
     /\ error.kind = "Cycle" => first > 0

\* a run whose cycle is closed by the last edge of a two-contract cycle, rejected
C2_Witness ==
  /\ error.kind = "Cycle"
  /\ error.a # error.b
  /\ pc = "unhandled"
  /\ FirstCyclic > 1

----------------------------------------------------------------------------
(* The deployment run (C3 - C9) *)

\* dependency d has a recorded address: one the configuration supplied, or one a
\* completed deploy call returned
Recorded(d) ==
  \/ HasContract(contractMap, d) /\ Truthy(contractMap[d].address)
  \/ promise[d].state = "resolved"

SentNames == { sends[i].name : i \in 1..Len(sends) }

\* the artifact set holds every dependency it names
Closed == \A i \in 1..Len(input) : SeqToSet(getDependencies(input[i])) \subseteq SeqToSet(InputNames)

\* C3: the link/deploy step of a contract never begins until every dependency
\* named by its bytecode and by its constructor has a recorded address (stated
\* here for artifact sets that hold every dependency they name).
C3_LinkBeginsAfterDependenciesRecorded ==
  [][\A n \in Names :
       (Closed /\ n \notin begun /\ n \in begun') =>
          \A d \in SeqToSet(getDependencies(Original(n))) : Recorded(d)]_vars

\* C4: when a contract's deploy call completes its address is stored in the map
\* that link and constructor resolution read; and in a finished run without a
\* failed deploy call every contract that is not reused was sent to the deploy
\* capability with bytecode that holds no placeholder of a library any more.
C4_DeployedAddressRecordedAndLinked ==
  /\ \A n \in Names :
       (promise[n].kind = "instance" /\ promise[n].state = "resolved") =>
          contractMap[n].address = promise[n].address
  /\ ( /\ Closed
       /\ pc \in {"reported", "unhandled"}
       /\ error.kind \notin {"Cycle", "ConfigFailed", "DeployFailed"} )
     => \A n \in SeqToSet(InputNames) \ DOMAIN config.deployedContracts :
          \E i \in 1..Len(sends) :
            /\ sends[i].name = n
            /\ getDependenciesFromBytecode(sends[i].data) = <<>>

\* p occurs somewhere in s
Contains(s, p) == \E i \in 1..(Len(s) + 1) : OccursAt(s, p, i)

\* the hexadecimal digits of the configured address of n
ConfiguredDigits(n) == SubSeq(config.deployedContracts[n], 3, Len(config.deployedContracts[n]))

C6_UnresolvedInjectionRejected ==
  \A m \in begun :
    LET unresolved == { d \in SeqToSet(getDependenciesFromConstructor(Original(m).abi)) :
                          ~(HasContract(contractMap, d) /\ Truthy(contractMap[d].address)) }
    IN (unresolved # {} /\ ~(error.at = "linkBytecode" /\ error.a = m)) =>
         /\ m \notin SentNames
         /\ error.kind = "NotDeployed"
         /\ error.at = "resolveConstructorParams"
         /\ error.a = m
         /\ error.b \in unresolved

RunOver == pc \in {"reported", "unhandled"}

\* C7: every run that is over has reported to its caller exactly once, with the
\* output when every contract was recorded and with the error otherwise (stated
\* for the runs whose configuration queries succeeded).
C7_CallbackInvokedExactlyOnce ==
  /\ Len(callbacks) <= 1
  /\ (RunOver /\ error.kind # "ConfigFailed") =>
       /\ Len(callbacks) = 1
       /\ callbacks[1].error = error
       /\ (error = NoError) <=> (\A n \in SeqToSet(InputNames) : promise[n].state = "resolved")

\* C8: at most one deploy call is outstanding at any time.
C8_AtMostOneDeployOutstanding == Cardinality(Pending) <= 1

\* C9: a failed deploy call makes the run report failure without output, and
\* no contract is sent to the deploy capability more than once.
C9_DeployFailureReportedNoRetry ==
  /\ \A i, j \in 1..Len(sends) : sends[i].name = sends[j].name => i = j
  /\ (RunOver /\ \E n \in Names : promise[n].state = "rejected") =>
       /\ Len(callbacks) = 1
       /\ callbacks[1].error.kind = "DeployFailed"
       /\ callbacks[1].output = <<>>

----------------------------------------------------------------------------
(* Linking on its own (C10): linkBytecode applied to one artifact and an    *)
(* address map, then applied again to its result                            *)

Placeholders == { Placeholder(n, p) : n \in Names, p \in 1..MaxPad }

\* hexadecimal code around and between the placeholders of the list q
RECURSIVE Bytecode(_, _)
Bytecode(q, i) ==
  IF i > Len(q) THEN Hex ELSE Hex \o q[i] \o Bytecode(q, i + 1)

LinkBytecodes ==
  { Bytecode(q, 1) : q \in UNION { [1..m -> Placeholders] : m \in 0..MaxPlaceholders } }

\* for each name: no artifact, an artifact without address, or one with an address
LinkMaps ==
  { [n \in known |-> [name |-> n,
                      address |-> IF n \in deployed THEN ConfiguredAddress(n) ELSE Undefined]] :
      known \in SUBSET Names, deployed \in SUBSET Names }

InitLink ==
  /\ pc = "off"
  /\ config = [deployedContracts |-> <<>>, constructorParams |-> <<>>]
  /\ contractMap = <<>>
  /\ contracts = <<>>
  /\ input = <<>>
  /\ g = EmptyGraph
  /\ plan = <<>>
  /\ k = 1
  /\ begun = {}
  /\ linkLog = [n \in Names |-> <<>>]
  /\ sends = <<>>
  /\ promise = [n \in Names |-> NoPromise]
  /\ error = NoError
  /\ callbacks = <<>>
  /\ \E b \in LinkBytecodes, m \in LinkMaps :
       lk = [phase |-> "input", bytecode |-> b, allContracts |-> m]

\* linkBytecode(contract, allContracts)
LinkFirst ==
  /\ lk.phase = "input"
  /\ lk' = [phase |-> "linked", bytecode |-> lk.bytecode, allContracts |-> lk.allContracts,
            first |-> linkBytecode([bytecode |-> lk.bytecode], lk.allContracts)]
  /\ UNCHANGED runVars

\* linkBytecode(contract, allContracts) once more, on the bytecode the first call left
LinkAgain ==
  /\ lk.phase = "linked"
  /\ lk' = [phase |-> "relinked", bytecode |-> lk.bytecode, allContracts |-> lk.allContracts,
            first |-> lk.first,
            second |-> linkBytecode([bytecode |-> lk.first.bytecode], lk.allContracts)]
  /\ UNCHANGED runVars

NextLink == LinkFirst \/ LinkAgain

SpecLink == InitLink /\ [][NextLink]_vars

\* the address map resolves every dependency the bytecode names
Resolves(allContracts, bytecode) ==
  \A d \in SeqToSet(getDependenciesFromBytecode(bytecode)) :
    HasContract(allContracts, d) /\ Truthy(allContracts[d].address)

\* C10: linking is idempotent: with an address map that resolves every bytecode
\* dependency of the artifact, the linked bytecode holds no placeholder and
\* linking it again leaves it unchanged.
C10_LinkIdempotent ==
  (lk.phase = "relinked" /\ Resolves(lk.allContracts, lk.bytecode)) =>
     /\ lk.first.ok
     /\ getDependenciesFromBytecode(lk.first.bytecode) = <<>>
     /\ lk.second.ok
     /\ lk.second.bytecode = lk.first.bytecode

----------------------------------------------------------------------------
(* Dependency extraction on its own (C11, C18): getDependencies and its two *)
(* sources applied to one artifact                                          *)

\* largest number of inputs of one constructor of the extraction checks
MaxInputs == 2

\* sequences of at most n names, repetitions allowed
NameSeqs(n) == UNION { [1..m -> Names] : m \in 0..n }

\* the inputs an ABI item declares: injected addresses, an input with the prefix
\* but another type, and an address without the prefix
AbiInputs ==
  { Inject(<<"a">>), Inject(<<"b">>),
    [name |-> PREFIX \o <<"a", "b">>, type |-> "uint256"],
    [name |-> <<"b">>, type |-> "address"] }

\* the members of an ABI: constructors, and a function
AbiItems ==
  { Constructor(ins) : ins \in UNION { [1..m -> AbiInputs] : m \in 0..MaxInputs } }
    \cup { [type |-> "function", inputs |-> << Inject(<<"a", "b">>) >>] }

\* ABIs of no, one or two members
Abis == { <<>> } \cup { <<x>> : x \in AbiItems } \cup { <<x, y>> : x \in AbiItems, y \in AbiItems }

\* the artifacts of the extraction checks: placeholders in the bytecode with
\* injected constructor inputs, and plain bytecode with any ABI
ExtractArtifacts ==
  { [bytecode |-> WithPlaceholders(libs, 1), abi |-> AbiInjecting(injected)] :
      libs \in NameSeqs(MaxPlaceholders), injected \in NameSeqs(MaxInputs) }
    \cup { [bytecode |-> Hex, abi |-> abi] : abi \in Abis }

InitExtract ==
  /\ pc = "off"
  /\ config = [deployedContracts |-> <<>>, constructorParams |-> <<>>]
  /\ contractMap = <<>>
  /\ contracts = <<>>
  /\ input = <<>>
  /\ g = EmptyGraph
  /\ plan = <<>>
  /\ k = 1
  /\ begun = {}
  /\ linkLog = [n \in Names |-> <<>>]
  /\ sends = <<>>
  /\ promise = [n \in Names |-> NoPromise]
  /\ error = NoError
  /\ callbacks = <<>>
  /\ \E contract \in ExtractArtifacts : lk = [phase |-> "artifact", contract |-> contract]

\* getDependencies(contract), with the results of the two functions it calls
Extract ==
  /\ lk.phase = "artifact"
  /\ lk' = [phase |-> "extracted", contract |-> lk.contract,
            fromBytecode |-> getDependenciesFromBytecode(lk.contract.bytecode),
            fromConstructor |-> getDependenciesFromConstructor(lk.contract.abi),
            dependencies |-> getDependencies(lk.contract)]
  /\ UNCHANGED runVars

NextExtract == Extract

SpecExtract == InitExtract /\ [][NextExtract]_vars

\* the elements of the list b that the list a does not hold, in their order
Without(b, a) == SelectSeq(b, LAMBDA x : x \notin SeqToSet(a))

\* C11: getDependencies returns the bytecode-derived names followed by the
\* constructor-derived names that the bytecode did not name, and lists no name
\* twice.
C11_DependenciesUnionNoDuplicates ==
  lk.phase = "extracted" =>
    /\ lk.dependencies = lk.fromBytecode \o Without(lk.fromConstructor, lk.fromBytecode)
    /\ \A i, j \in 1..Len(lk.dependencies) :
         lk.dependencies[i] = lk.dependencies[j] => i = j

----------------------------------------------------------------------------
(* Output of a successful run (C12) *)

\* C12: the output of a successful run holds one entry for each contract of the
\* artifact set, in the planned order, with the contract's name and abi and its
\* recorded address: the configured one for a reused contract, the one its
\* deploy call returned otherwise.
C12_OutputListsEveryContract ==
  (pc = "reported" /\ Len(callbacks) = 1 /\ callbacks[1].error = NoError) =>
    LET output == callbacks[1].output
    IN /\ Len(output) = Len(input)
       /\ \A i, j \in 1..Len(contracts) :
            i < j => IndexOf(plan, contracts[i]) < IndexOf(plan, contracts[j])
       /\ \A i \in 1..Len(output) :
            /\ output[i].name = contracts[i]
            /\ output[i].abi = Original(contracts[i]).abi
            /\ output[i].address =
                 IF Reused(contracts[i]) THEN config.deployedContracts[contracts[i]]
                 ELSE promise[contracts[i]].address
            /\ Truthy(output[i].address)

----------------------------------------------------------------------------
(* mergeConfig on its own (C13): the caller's options, the latest block and *)
(* the account list of the ledger client                                    *)

\* largest number of accounts the ledger client lists
MaxAccounts == 2

ConfigKeys == {"provider", "from", "gasLimit", "constructorParams", "deployedContracts"}

\* the value the caller sets an option to, when it sets it
CallerValue(key) ==
  CASE key = "provider" -> "http://node:8545"
    [] key = "from" -> <<"0", "x", "f">>
    [] key = "gasLimit" -> 7
    [] key = "constructorParams" -> [n \in {<<"a">>} |-> << <<"7">> >>]
    [] key = "deployedContracts" -> [n \in {<<"a">>} |-> ConfiguredAddress(<<"a">>)]

LoaderConfigs == { [key \in set |-> CallerValue(key)] : set \in SUBSET ConfigKeys }

Account(i) == <<"0", "x", "a">> \o [j \in 1..i |-> "1"]

AccountLists == { [i \in 1..m |-> Account(i)] : m \in 0..MaxAccounts }

Blocks == { [gasLimit |-> 8], [gasLimit |-> 9] }

\* a merge in which the defaults replace what the caller set
mergeConfigDefaultsFirst(loaderConfig, defaultBlock, accounts) ==
  LET defaultConfig ==
        [provider |-> "http://localhost:8545",
         from |-> IF Len(accounts) = 0 THEN Undefined ELSE accounts[1],
         gasLimit |-> defaultBlock.gasLimit,
         constructorParams |-> <<>>,
         deployedContracts |-> <<>>]
  IN [key \in DOMAIN loaderConfig \cup DOMAIN defaultConfig |->
        IF key \in DOMAIN defaultConfig THEN defaultConfig[key] ELSE loaderConfig[key]]

\* the then callback of mergeConfig: accounts[0] of an empty list is undefined
mergeConfig(loaderConfig, defaultBlock, accounts) ==
  LET defaultConfig ==
        [provider |-> "http://localhost:8545",
         from |-> IF Len(accounts) = 0 THEN Undefined ELSE accounts[1],
         gasLimit |-> defaultBlock.gasLimit,
         constructorParams |-> <<>>,
         deployedContracts |-> <<>>]
  IN [key \in DOMAIN loaderConfig \cup DOMAIN defaultConfig |->
        IF key \in DOMAIN loaderConfig THEN loaderConfig[key] ELSE defaultConfig[key]]

InitMerge ==
  /\ pc = "off"
  /\ config = [deployedContracts |-> <<>>, constructorParams |-> <<>>]
  /\ contractMap = <<>>
  /\ contracts = <<>>
  /\ input = <<>>
  /\ g = EmptyGraph
  /\ plan = <<>>
  /\ k = 1
  /\ begun = {}
  /\ linkLog = [n \in Names |-> <<>>]
  /\ sends = <<>>
  /\ promise = [n \in Names |-> NoPromise]
  /\ error = NoError
  /\ callbacks = <<>>
  /\ \E loaderConfig \in LoaderConfigs :
       lk = [phase |-> "querying", loaderConfig |-> loaderConfig]

\* both ledger queries are answered: the then callback merges
MergeResolved ==
  /\ lk.phase = "querying"
  /\ \E defaultBlock \in Blocks, accounts \in AccountLists :
       lk' = [phase |-> "merged", loaderConfig |-> lk.loaderConfig,
              defaultBlock |-> defaultBlock, accounts |-> accounts,
              mergedConfig |-> mergeConfig(lk.loaderConfig, defaultBlock, accounts)]
  /\ UNCHANGED runVars

\* a ledger query fails: the promise mergeConfig returned rejects
MergeRejected ==
  /\ lk.phase = "querying"
  /\ lk' = [phase |-> "rejected", loaderConfig |-> lk.loaderConfig]
  /\ UNCHANGED runVars

NextMerge == MergeResolved \/ MergeRejected

SpecMerge == InitMerge /\ [][NextMerge]_vars

\* C13: in the merged configuration every option the caller set keeps the
\* caller's value, and every option the caller did not set has its default:
\* from the first account of the list, gasLimit that of the latest block,
\* constructorParams and deployedContracts the empty map.
C13_MergeKeepsCallerOptions ==
  lk.phase = "merged" =>
    LET set == DOMAIN lk.loaderConfig
        merged == lk.mergedConfig
    IN /\ DOMAIN merged = ConfigKeys
       /\ \A key \in set : merged[key] = CallerValue(key)
       /\ "from" \notin set =>
            merged["from"] = IF Len(lk.accounts) = 0 THEN Undefined ELSE lk.accounts[1]
       /\ "gasLimit" \notin set => merged["gasLimit"] = lk.defaultBlock.gasLimit
       /\ "constructorParams" \notin set => DOMAIN merged["constructorParams"] = {}
       /\ "deployedContracts" \notin set => DOMAIN merged["deployedContracts"] = {}

\* a merge of a configuration in which the caller set the gas limit and the
\* contracts to reuse, and left the account to the ledger's list of several
C13_Witness ==
  /\ lk.phase = "merged"
  /\ {"gasLimit", "deployedContracts"} \subseteq DOMAIN lk.loaderConfig
  /\ "from" \notin DOMAIN lk.loaderConfig
  /\ Len(lk.accounts) > 1
  /\ lk.mergedConfig["from"] = Account(1)
  /\ lk.mergedConfig["gasLimit"] = 7

----------------------------------------------------------------------------
(* Linking by exact placeholder (C14) *)

\* the bytecode from position i on, with every placeholder (two underscores, a
\* name, padding underscores) replaced by the address, without 0x, of the
\* dependency that the placeholder names
RECURSIVE LinkedExactly(_, _, _)
LinkedExactly(bytecode, allContracts, i) ==
  IF i > Len(bytecode) THEN <<>>
  ELSE IF i + 1 <= Len(bytecode) /\ bytecode[i] = US /\ bytecode[i + 1] = US
       THEN LET nameEnd == SkipName(bytecode, i + 2)
                libName == SubSeq(bytecode, i + 2, nameEnd - 1)
            IN ReplaceFirst(allContracts[libName].address, <<"0", "x">>)
                 \o LinkedExactly(bytecode, allContracts, SkipUnderscores(bytecode, nameEnd))
       ELSE <<bytecode[i]>> \o LinkedExactly(bytecode, allContracts, i + 1)

\* C14: with every dependency of the bytecode resolved, linkBytecode replaces
\* each placeholder by the address of exactly the dependency it names and alters
\* no placeholder of another dependency, whatever the order of the dependencies
\* and also when one name is a prefix of another.
C14_LinkReplacesExactPlaceholders ==
  (lk.phase = "linked" /\ Resolves(lk.allContracts, lk.bytecode)) =>
     /\ lk.first.ok
     /\ lk.first.bytecode = LinkedExactly(lk.bytecode, lk.allContracts, 1)

----------------------------------------------------------------------------
(* The graph during construction (C15), unresolved links (C16) and          *)
(* constructor arguments (C17)                                              *)

\* C15: the dependency graph is acyclic at all times: an edge whose insertion
\* closes a cycle is not retained in the graph.
C15_GraphAlwaysAcyclic == isAcyclic(g)

\* C16: a contract one of whose bytecode dependencies has no recorded address
\* (absent from the map, or without address) fails in linkBytecode with the
\* unresolved-dependency error naming that dependency, and is not sent to the
\* deploy capability.
C16_UnresolvedLinkRejected ==
  \A m \in begun :
    LET unresolved == { d \in SeqToSet(getDependenciesFromBytecode(Original(m).bytecode)) :
                          ~(HasContract(contractMap, d) /\ Truthy(contractMap[d].address)) }
    IN unresolved # {} =>
         /\ m \notin SentNames
         /\ error.kind = "UnresolvedDependency"
         /\ error.at = "linkBytecode"
         /\ error.a = m
         /\ error.b \in unresolved

\* the parameters the caller configured for contract n
CallerParams(n) == IF n = input[1].name THEN << <<"7">> >> ELSE <<>>

----------------------------------------------------------------------------
(* Constructor injection (C18) *)

\* positions of the constructor-type members of the ABI
ConstructorPositions(abi) == { i \in 1..Len(abi) : abi[i].type = "constructor" }

\* the inputs of the first constructor-type member, none when there is none
FirstConstructorInputs(abi) ==
  IF ConstructorPositions(abi) = {} THEN <<>>
  ELSE abi[CHOOSE i \in ConstructorPositions(abi) :
             \A j \in ConstructorPositions(abi) : i <= j].inputs

\* the name an injected input stands for, and the position of its first mention
InjectedName(in) == SubSeq(in.name, Len(PREFIX) + 1, Len(in.name))

FirstMention(ins, name) ==
  CHOOSE i \in 1..Len(ins) :
    /\ IsInjected(ins[i]) /\ InjectedName(ins[i]) = name
    /\ \A j \in 1..(i - 1) : ~(IsInjected(ins[j]) /\ InjectedName(ins[j]) = name)

\* C18: getDependenciesFromConstructor consults only the first constructor of
\* the ABI and returns, without duplicates and in the order of first mention,
\* the prefix-stripped names of exactly the inputs of type address whose name
\* starts with inject_; without a constructor the result is empty.
C18_ConstructorInjectionFromFirstConstructor ==
  lk.phase = "extracted" =>
    LET ins == FirstConstructorInputs(lk.contract.abi)
        deps == lk.fromConstructor
    IN /\ SeqToSet(deps) = { InjectedName(ins[i]) : i \in { j \in 1..Len(ins) : IsInjected(ins[j]) } }
       /\ \A i, j \in 1..Len(deps) : deps[i] = deps[j] => i = j
       /\ \A i, j \in 1..Len(deps) :
            i < j => FirstMention(ins, deps[i]) < FirstMention(ins, deps[j])
       /\ ConstructorPositions(lk.contract.abi) = {} => deps = <<>>

\* an ABI of two constructors was read: the first one injects one dependency
\* twice, the second one injects another, and only the first one counted, once
C18_Witness ==
  /\ lk.phase = "extracted"
  /\ Len(lk.contract.abi) = 2
  /\ ConstructorPositions(lk.contract.abi) = {1, 2}
  /\ lk.contract.abi[1].inputs = << Inject(<<"a">>), Inject(<<"a">>) >>
  /\ \E i \in 1..Len(lk.contract.abi[2].inputs) :
       lk.contract.abi[2].inputs[i] = Inject(<<"b">>)
  /\ lk.fromConstructor = << <<"a">> >>

----------------------------------------------------------------------------
(* Two loader runs in one process (C19): web3 and configPromise are          *)
(* variables of the module, shared by every call of module.exports           *)

Providers == { "http://one:8545", "http://two:8545", "http://three:8545" }

Runs == {1, 2}

\* the ledger client require('./lib/web3')(provider) builds
Web3(provider) == [provider |-> provider]

NoClient == [provider |-> "none"]

InitRuns ==
  /\ pc = "off"
  /\ config = [deployedContracts |-> <<>>, constructorParams |-> <<>>]
  /\ contractMap = <<>>
  /\ contracts = <<>>
  /\ input = <<>>
  /\ g = EmptyGraph
  /\ plan = <<>>
  /\ k = 1
  /\ begun = {}
  /\ linkLog = [n \in Names |-> <<>>]
  /\ sends = <<>>
  /\ promise = [n \in Names |-> NoPromise]
  /\ error = NoError
  /\ callbacks = <<>>
  /\ \E provider \in [Runs -> Providers], count \in [Runs -> 1..MaxContracts] :
       /\ provider[1] # provider[2]
       /\ lk = [phase |-> "runs",
                web3 |-> NoClient,
                configPromise |-> 0,
                run |-> [r \in Runs |->
                           [provider |-> provider[r], contracts |-> count[r], at |-> "idle",
                            awaits |-> 0, queried |-> NoClient, deployed |-> <<>>]]]

\* module.exports is called for run r: init builds the client of the run's
\* provider into web3, mergeConfig queries through it and its promise becomes
\* configPromise, to which the run attaches its then callback
Load(r) ==
  /\ lk.phase = "runs" /\ lk.run[r].at = "idle"
  /\ lk' = [lk EXCEPT !.web3 = Web3(lk.run[r].provider),
                      !.configPromise = r,
                      !.run[r].at = "config",
                      !.run[r].awaits = r,
                      !.run[r].queried = Web3(lk.run[r].provider)]
  /\ UNCHANGED runVars

\* the promise run r awaits resolves: the then callback deploys each of the
\* run's contracts with new web3.eth.Contract(...), web3 read at that moment
RunResolved(r) ==
  /\ lk.phase = "runs" /\ lk.run[r].at = "config"
  /\ lk' = [lk EXCEPT !.run[r].at = "mapped",
                      !.run[r].deployed = [i \in 1..lk.run[r].contracts |-> lk.web3]]
  /\ UNCHANGED runVars

\* the deploy calls of run r settle and the run reports to its caller
RunSettled(r) ==
  /\ lk.phase = "runs" /\ lk.run[r].at = "mapped"
  /\ lk' = [lk EXCEPT !.run[r].at = "reported"]
  /\ UNCHANGED runVars

NextRuns ==
  \/ \E r \in Runs : Load(r)
  \/ \E r \in Runs : RunResolved(r)
  \/ \E r \in Runs : RunSettled(r)

SpecRuns == InitRuns /\ [][NextRuns]_vars

\* C19: when two runs with different providers interleave, each run awaits its
\* own configuration and issues every deploy call through the ledger client
\* built from its own provider.
C19_RunDeploysThroughOwnClient ==
  lk.phase = "runs" =>
    \A r \in Runs :
      /\ lk.run[r].at # "idle" =>
           lk.run[r].awaits = r /\ lk.run[r].queried = Web3(lk.run[r].provider)
      /\ \A i \in 1..Len(lk.run[r].deployed) :
           lk.run[r].deployed[i] = Web3(lk.run[r].provider)

====
